---- MODULE Spec2Model ----
(***************************************************************************)
(* Model of utils/readspec.py: the active loop (lines 16-19) that reads    *)
(* copy_from_gh.txt line by line and writes one `"long" => CellType::short,`*)
(* line per input line to standard output.                                 *)
(*                                                                         *)
(* Text is modelled as sequences of one-character strings.  A file is the  *)
(* character stream on disk; iterating over it yields lines that keep      *)
(* their "\n" terminator, as Python's file iterator does.  Standard output *)
(* is the character stream the calls to print() have produced.             *)
(*                                                                         *)
(* Every variable is indexed by a run of the script: Spec has one run,     *)
(* SpecPair has two runs, one after the other, each on its own file.       *)
(***************************************************************************)
EXTENDS Naturals, Sequences, FiniteSets

VARIABLES file, idx, stdout, status

vars == <<file, idx, stdout, status>>

(* ------------------------------ bounds -------------------------------- *)

\* longest generated file of a single run, in characters
MaxFileLen == 5

\* largest total size of the two files of a pair of runs, in characters
MaxPairLen == 5

(* ------------------------------ text ---------------------------------- *)

\* the characters generated files are made of
Alphabet == {"A", " ", "\t", "(", ")", "|", "\n"}

\* str.strip() without argument strips whitespace (within Alphabet: these)
Whitespace == {" ", "\t", "\n"}

\* the literal text between the two identifiers in the f-string of line 19
ArrowText == <<"\"", " ", "=", ">", " ", "C", "e", "l", "l", "T", "y", "p", "e", ":", ":">>

TextsOfLen(n) == [1..n -> Alphabet]

RECURSIVE LStrip(_, _)
LStrip(s, cs) ==
  IF s # <<>> /\ Head(s) \in cs THEN LStrip(Tail(s), cs) ELSE s

RECURSIVE RStrip(_, _)
RStrip(s, cs) ==
  IF s # <<>> /\ s[Len(s)] \in cs THEN RStrip(SubSeq(s, 1, Len(s) - 1), cs) ELSE s

\* a plausible slip: x.rstrip(cs) where x.strip(cs) is meant
StripRightOnly(s, cs) == RStrip(s, cs)

\* a plausible slip: the set of stripped characters lacks ")"
StripNoParen(s, cs) == LStrip(RStrip(s, cs \ {")"}), cs \ {")"})

\* a plausible slip: the text is not stripped at all
StripNothing(s, cs) == s

\* str.strip(cs): every leading and every trailing character of cs is removed
Strip(s, cs) == LStrip(RStrip(s, cs), cs)

\* a plausible slip: str.split(sep, 1), at most one split
SplitOnce(s, sep) ==
  IF \A i \in 1..Len(s) : s[i] # sep
  THEN <<s>>
  ELSE LET k == CHOOSE i \in 1..Len(s) :
                  s[i] = sep /\ \A j \in 1..(i - 1) : s[j] # sep
       IN <<SubSeq(s, 1, k - 1), SubSeq(s, k + 1, Len(s))>>

\* str.split(sep): the parts between the occurrences of sep, at least one part
RECURSIVE Split(_, _)
Split(s, sep) ==
  IF \A i \in 1..Len(s) : s[i] # sep
  THEN <<s>>
  ELSE LET k == CHOOSE i \in 1..Len(s) :
                  s[i] = sep /\ \A j \in 1..(i - 1) : s[j] # sep
       IN <<SubSeq(s, 1, k - 1)>> \o Split(SubSeq(s, k + 1, Len(s)), sep)

\* a plausible slip: nothing is replaced
ReplaceNothing(s, old, new) == s

\* str.replace(old, new) for a one-character old
RECURSIVE Replace(_, _, _)
Replace(s, old, new) ==
  IF s = <<>> THEN <<>>
  ELSE (IF Head(s) = old THEN new ELSE <<Head(s)>>) \o Replace(Tail(s), old, new)

\* iterating over an open text file: the lines, each with its "\n" (the last
\* line has none when the file does not end with one)
RECURSIVE ReadLines(_)
ReadLines(f) ==
  IF f = <<>> THEN <<>>
  ELSE IF \A i \in 1..Len(f) : f[i] # "\n"
  THEN <<f>>
  ELSE LET k == CHOOSE i \in 1..Len(f) :
                  f[i] = "\n" /\ \A j \in 1..(i - 1) : f[j] # "\n"
       IN <<SubSeq(f, 1, k)>> \o ReadLines(SubSeq(f, k + 1, Len(f)))

(* --------------------------- the loop body ---------------------------- *)

\* line 17: tab = line.strip().split("|")
Tab(line) == Split(Strip(line, Whitespace), "|")

\* a plausible slip: the last field is used where the first is meant
FieldOfLastTab(line) ==
  LET parts == Split(Tab(line)[Len(Tab(line))], "(")
  IN [k \in 1..Len(parts) |-> Replace(Strip(parts[k], {" ", ")"}), " ", <<>>)]

\* a plausible slip: the first part only loses its trailing spaces
FieldShortRightStripped(line) ==
  LET parts == Split(Tab(line)[1], "(")
  IN [k \in 1..Len(parts) |->
        IF k = 1 THEN RStrip(parts[k], {" "})
        ELSE Replace(Strip(parts[k], {" ", ")"}), " ", <<>>)]

\* line 18: field = [x.strip(" )").replace(" ", "") for x in tab[0].split("(")]
Field(line) ==
  LET parts == Split(Tab(line)[1], "(")
  IN [k \in 1..Len(parts) |-> Replace(Strip(parts[k], {" ", ")"}), " ", <<>>)]

\* line 19: the text of f"\"{field[1]}\" => CellType::{field[0]},"
Fmt(field) == <<"\"">> \o field[2] \o ArrowText \o field[1] \o <<",">>

\* the runs before r have ended
Turn(r) == \A q \in DOMAIN file : q < r => status[q] # "running"

(* ------------------------------ files --------------------------------- *)

\* the line of the spec's first example, and the line with an empty long identifier
FooLine ==
  <<"F", "o", "o", " ", "(", "B", "a", "r", " ", "B", "a", "z", ")", " ",
    "|", "x", "|", "y", "|", "z", "\n">>

EmptyLongLine == <<"A", " ", "(", ")", "\n">>

SampleFiles ==
  { FooLine,
    FooLine \o EmptyLongLine,
    EmptyLongLine \o FooLine }

(* ----------------------------- behaviour ------------------------------ *)

Start(files) ==
  /\ file = files
  /\ idx = [r \in DOMAIN files |-> 0]
  /\ stdout = [r \in DOMAIN files |-> <<>>]
  /\ status = [r \in DOMAIN files |-> "running"]

\* one run, on a generated file of at most MaxFileLen characters or a sample file
Init ==
  \/ \E n \in 0..MaxFileLen : \E f \in TextsOfLen(n) : Start(<<f>>)
  \/ \E f \in SampleFiles : Start(<<f>>)

\* two runs, on generated files of at most MaxPairLen characters together
\* that have the same number of lines
InitPair ==
  \E n \in 0..MaxPairLen : \E m \in 0..(MaxPairLen - n) :
    \E a \in TextsOfLen(n), b \in TextsOfLen(m) :
      /\ Len(ReadLines(a)) = Len(ReadLines(b))
      /\ Start(<<a, b>>)

\* a plausible slip: the IndexError is caught and the loop goes on
LoopBodyCatch(r) ==
  /\ Turn(r)
  /\ status[r] = "running"
  /\ idx[r] < Len(ReadLines(file[r]))
  /\ LET field == Field(ReadLines(file[r])[idx[r] + 1])
     IN IF Len(field) >= 2
        THEN stdout' = [stdout EXCEPT ![r] = @ \o Fmt(field) \o <<"\n">>]
        ELSE stdout' = stdout
  /\ idx' = [idx EXCEPT ![r] = @ + 1]
  /\ UNCHANGED <<file, status>>

\* a plausible slip: a second field is read (tab[1]), as the inactive variant does
LoopBodyReadsTab1(r) ==
  /\ Turn(r)
  /\ status[r] = "running"
  /\ idx[r] < Len(ReadLines(file[r]))
  /\ LET line == ReadLines(file[r])[idx[r] + 1]
         field == Field(line)
     IN IF Len(Tab(line)) >= 2 /\ Len(field) >= 2
        THEN /\ stdout' = [stdout EXCEPT ![r] = @ \o Fmt(field) \o <<"\n">>]
             /\ status' = status
        ELSE /\ stdout' = stdout
             /\ status' = [status EXCEPT ![r] = "failed"]
  /\ idx' = [idx EXCEPT ![r] = @ + 1]
  /\ UNCHANGED file

\* a plausible slip: a blank line is skipped (if not line.strip(): continue)
LoopBodySkipBlank(r) ==
  /\ Turn(r)
  /\ status[r] = "running"
  /\ idx[r] < Len(ReadLines(file[r]))
  /\ LET line == ReadLines(file[r])[idx[r] + 1]
         field == Field(line)
     IN IF Strip(line, Whitespace) = <<>>
        THEN /\ stdout' = stdout
             /\ status' = status
        ELSE IF Len(field) >= 2
        THEN /\ stdout' = [stdout EXCEPT ![r] = @ \o Fmt(field) \o <<"\n">>]
             /\ status' = status
        ELSE /\ stdout' = stdout
             /\ status' = [status EXCEPT ![r] = "failed"]
  /\ idx' = [idx EXCEPT ![r] = @ + 1]
  /\ UNCHANGED file

\* one iteration of the for loop of line 16: lines 17-19 on the next line
LoopBody(r) ==
  /\ Turn(r)
  /\ status[r] = "running"
  /\ idx[r] < Len(ReadLines(file[r]))
  /\ LET field == Field(ReadLines(file[r])[idx[r] + 1])
     IN IF Len(field) >= 2
        THEN /\ stdout' = [stdout EXCEPT ![r] = @ \o Fmt(field) \o <<"\n">>]
             /\ status' = status
        ELSE \* field[1] raises IndexError, which nothing catches
             /\ stdout' = stdout
             /\ status' = [status EXCEPT ![r] = "failed"]
  /\ idx' = [idx EXCEPT ![r] = @ + 1]
  /\ UNCHANGED file

\* the file iterator is exhausted: the loop and the script end
EndOfFile(r) ==
  /\ Turn(r)
  /\ status[r] = "running"
  /\ idx[r] = Len(ReadLines(file[r]))
  /\ status' = [status EXCEPT ![r] = "done"]
  /\ UNCHANGED <<file, idx, stdout>>

Next ==
  \/ \E r \in DOMAIN file : LoopBody(r)
  \/ \E r \in DOMAIN file : EndOfFile(r)

Spec == Init /\ [][Next]_vars

SpecPair == InitPair /\ [][Next]_vars

(* ------------------- what the claims speak about ---------------------- *)
(* The operators below describe input and output by positions in the     *)
(* text; none of them uses Strip, Split, Replace, Tab or Field.           *)

Positions(s, c) == { i \in 1..Len(s) : s[i] = c }

\* where c first occurs in s; Len(s) + 1 when it does not occur
FirstAt(s, c) ==
  IF Positions(s, c) = {} THEN Len(s) + 1
  ELSE CHOOSE i \in Positions(s, c) : \A j \in Positions(s, c) : i <= j

\* s without its leading and trailing characters of cs
Trimmed(s, cs) ==
  LET keep == { i \in 1..Len(s) : s[i] \notin cs }
  IN IF keep = {} THEN <<>>
     ELSE SubSeq(s, CHOOSE i \in keep : \A j \in keep : i <= j,
                    CHOOSE i \in keep : \A j \in keep : j <= i)

\* s without its trailing characters of cs
TrimmedRight(s, cs) ==
  LET keep == { i \in 1..Len(s) : s[i] \notin cs }
  IN IF keep = {} THEN <<>>
     ELSE SubSeq(s, 1, CHOOSE i \in keep : \A j \in keep : j <= i)

NoSpaces(s) == SelectSeq(s, LAMBDA c : c # " ")

\* a line's text without its line terminator
Content(line) ==
  IF line # <<>> /\ line[Len(line)] = "\n" THEN SubSeq(line, 1, Len(line) - 1) ELSE line

HasPipe(line) == Positions(line, "|") # {}

\* the text of a line before its first "|" (all of it when it has none)
BeforePipe(line) == SubSeq(Content(line), 1, FirstAt(Content(line), "|") - 1)

HasParen(line) == Positions(BeforePipe(line), "(") # {}

IsBlank(line) == \A k \in 1..Len(line) : line[k] \in Whitespace

\* field 0 as the script sees it: the text before the first "|" of the line
\* without its leading and trailing whitespace
Field0(line) ==
  LET t == Trimmed(line, Whitespace) IN SubSeq(t, 1, FirstAt(t, "|") - 1)

\* the text of field 0 before its first "("
FirstPart(line) == SubSeq(Field0(line), 1, FirstAt(Field0(line), "(") - 1)

\* the text of field 0 between its first "(" and its second "(" (or its end)
SecondPart(line) ==
  LET f == Field0(line)
      rest == SubSeq(f, FirstAt(f, "(") + 1, Len(f))
  IN SubSeq(rest, 1, FirstAt(rest, "(") - 1)

\* leading and trailing spaces and ")" removed, then every space removed
Cleaned(s) == NoSpaces(Trimmed(s, {" ", ")"}))

StartsWith(s, t) == Len(t) <= Len(s) /\ SubSeq(s, 1, Len(t)) = t

EndsWith(s, t) == Len(t) <= Len(s) /\ SubSeq(s, Len(s) - Len(t) + 1, Len(s)) = t

Runs == DOMAIN file

InLines(r) == ReadLines(file[r])

\* the lines on standard output, each with its "\n"
OutLines(r) == ReadLines(stdout[r])

\* the run failed on its i-th line
FailedAt(r, i) == status[r] = "failed" /\ idx[r] = i

\* the number of lines the loop body has completed on
Completed(r) == IF status[r] = "failed" THEN idx[r] - 1 ELSE idx[r]

RECURSIVE Concat(_)
Concat(ss) == IF ss = <<>> THEN <<>> ELSE Head(ss) \o Concat(Tail(ss))

(* ------------------------------ claims -------------------------------- *)

\* C1: when field 0 of every line of the file contains a "(", the run never
\* fails, and after k lines have been read standard output holds exactly k
\* lines, the i-th being the line generated from the i-th input line.
C1_OneOutputLinePerInputLine ==
  \A r \in Runs :
    (\A i \in 1..Len(InLines(r)) : HasParen(InLines(r)[i]))
      => /\ status[r] # "failed"
         /\ Len(OutLines(r)) = idx[r]
         /\ \A i \in 1..idx[r] :
              OutLines(r)[i] = Fmt(Field(InLines(r)[i])) \o <<"\n">>

C1_Witness ==
  \E r \in Runs :
    /\ status[r] = "done"
    /\ idx[r] >= 2
    /\ \A i \in 1..Len(InLines(r)) : HasParen(InLines(r)[i])
    /\ Len(OutLines(r)) = 2

\* the output the spec gives for the line `Foo (Bar Baz) |x|y|z`
FooOutput ==
  <<"\"", "B", "a", "r", "B", "a", "z", "\"", " ", "=", ">", " ",
    "C", "e", "l", "l", "T", "y", "p", "e", ":", ":", "F", "o", "o", ",", "\n">>

\* C2: the line `Foo (Bar Baz) |x|y|z` is completed without failure and its
\* output line is exactly `"BarBaz" => CellType::Foo,`.
C2_FooExample ==
  \A r \in Runs : \A i \in 1..idx[r] :
    Content(InLines(r)[i]) = Content(FooLine)
      => /\ ~FailedAt(r, i)
         /\ i <= Len(OutLines(r))
         /\ OutLines(r)[i] = FooOutput

C2_Witness ==
  \E r \in Runs :
    /\ idx[r] >= 1
    /\ InLines(r)[1] = FooLine
    /\ stdout[r] # <<>>

\* C3: when line n is the first whose field 0 has no "(", then once line n
\* has been read the run has failed at line n, standard output is exactly
\* the output of lines 1..n-1, and no later line is ever read.
C3_FailFast ==
  \A r \in Runs : \A n \in 1..Len(InLines(r)) :
    ( /\ ~HasParen(InLines(r)[n])
      /\ \A j \in 1..(n - 1) : HasParen(InLines(r)[j])
      /\ idx[r] >= n )
      => /\ FailedAt(r, n)
         /\ stdout[r] =
              Concat([j \in 1..(n - 1) |-> Fmt(Field(InLines(r)[j])) \o <<"\n">>])

C3_Witness ==
  \E r \in Runs :
    /\ FailedAt(r, 2)
    /\ Len(InLines(r)) >= 3
    /\ Len(OutLines(r)) = 1

\* C4 as claimed: a line without any "|" is fatal: the run fails at that line.
C4_NoPipeIsFatal ==
  \A r \in Runs : \A i \in 1..idx[r] :
    ~HasPipe(InLines(r)[i]) => FailedAt(r, i)

\* C4 as amended: a line without any "|" is all field 0.  The run fails at
\* it exactly when it has no "("; otherwise its output line is made of the
\* two cleaned parts of the whole line, like that of any other line.
C4_NoPipeLineIsField0 ==
  \A r \in Runs : \A i \in 1..idx[r] :
    LET whole == Trimmed(InLines(r)[i], Whitespace)
        tail == SubSeq(whole, FirstAt(whole, "(") + 1, Len(whole))
    IN ~HasPipe(InLines(r)[i])
         => /\ FailedAt(r, i) <=> Positions(InLines(r)[i], "(") = {}
            /\ ~FailedAt(r, i)
                 => /\ i <= Len(OutLines(r))
                    /\ OutLines(r)[i] =
                         <<"\"">> \o Cleaned(SubSeq(tail, 1, FirstAt(tail, "(") - 1))
                           \o ArrowText
                           \o Cleaned(SubSeq(whole, 1, FirstAt(whole, "(") - 1))
                           \o <<",", "\n">>

C4_Witness ==
  \E r \in Runs :
    /\ idx[r] >= 2
    /\ ~HasPipe(InLines(r)[1])
    /\ Len(OutLines(r)) = 2

\* the number of lines of ls that are not blank
RECURSIVE NonBlankCount(_)
NonBlankCount(ls) ==
  IF ls = <<>> THEN 0
  ELSE (IF IsBlank(Head(ls)) THEN 0 ELSE 1) + NonBlankCount(Tail(ls))

\* C5 as claimed: when every non-blank line is well-formed the run does not
\* fail and ends with as many output lines as there are non-blank lines.
C5_BlankLinesSkipped ==
  \A r \in Runs :
    (\A i \in 1..Len(InLines(r)) :
        ~IsBlank(InLines(r)[i]) => HasParen(InLines(r)[i]))
      => /\ status[r] # "failed"
         /\ status[r] = "done" => Len(OutLines(r)) = NonBlankCount(InLines(r))

\* C5 as amended: a blank (empty or whitespace-only) line stops the run: the
\* run fails at it with the output of the lines before it and nothing more.
\* A run that ends without failure had no blank line and has printed as
\* many lines as the file has.
C5_BlankLineStopsRun ==
  \A r \in Runs :
    /\ \A i \in 1..idx[r] :
         IsBlank(InLines(r)[i]) => FailedAt(r, i) /\ Len(OutLines(r)) = i - 1
    /\ status[r] = "done"
         => /\ Len(OutLines(r)) = Len(InLines(r))
            /\ \A i \in 1..Len(InLines(r)) : ~IsBlank(InLines(r)[i])

C5_Witness ==
  \E r \in Runs :
    /\ FailedAt(r, 2)
    /\ IsBlank(InLines(r)[2])
    /\ Len(OutLines(r)) = 1

\* the output the spec gives for field 0 `A ()`
EmptyLongOutput ==
  <<"\"", "\"", " ", "=", ">", " ",
    "C", "e", "l", "l", "T", "y", "p", "e", ":", ":", "A", ",", "\n">>

\* C6: a line whose field 0 is `A ()` does not fail; its output line is
\* exactly `"" => CellType::A,`, and the run does not end at it while the
\* file has further lines.
C6_EmptyLongPreserved ==
  \A r \in Runs : \A i \in 1..idx[r] :
    BeforePipe(InLines(r)[i]) = <<"A", " ", "(", ")">>
      => /\ ~FailedAt(r, i)
         /\ i <= Len(OutLines(r))
         /\ OutLines(r)[i] = EmptyLongOutput
         /\ (status[r] = "done" => idx[r] = Len(InLines(r)))

C6_Witness ==
  \E r \in Runs :
    /\ idx[r] >= 2
    /\ BeforePipe(InLines(r)[1]) = <<"A", " ", "(", ")">>
    /\ Len(OutLines(r)) = 2

\* C7 as claimed: the short identifier after `CellType::` is the first part
\* of field 0 with only its trailing spaces removed.
C7_ShortOnlyRightTrimmed ==
  \A r \in Runs : \A i \in 1..Completed(r) :
    /\ i <= Len(OutLines(r))
    /\ EndsWith(OutLines(r)[i],
                ArrowText \o TrimmedRight(FirstPart(InLines(r)[i]), {" "})
                  \o <<",", "\n">>)

\* C7 as amended: the short identifier after `CellType::` is the first part
\* of field 0 with every leading and trailing space and ")" removed and
\* then every space removed; a ")" between other characters stays.
C7_ShortIsCleanedFirstPart ==
  \A r \in Runs : \A i \in 1..Completed(r) :
    /\ i <= Len(OutLines(r))
    /\ EndsWith(OutLines(r)[i],
                ArrowText \o Cleaned(FirstPart(InLines(r)[i])) \o <<",", "\n">>)

C7_Witness ==
  \E r \in Runs : \E i \in 1..Completed(r) :
    /\ Cleaned(FirstPart(InLines(r)[i]))
         # TrimmedRight(FirstPart(InLines(r)[i]), {" "})
    /\ Cleaned(FirstPart(InLines(r)[i])) # <<>>
    /\ i <= Len(OutLines(r))

\* s without one trailing ")", when it has one
WithoutOneParen(s) ==
  IF s # <<>> /\ s[Len(s)] = ")" THEN SubSeq(s, 1, Len(s) - 1) ELSE s

\* C8 as claimed: the long identifier between the quotes is the second part
\* of field 0 with its trailing spaces and one trailing ")" removed and then
\* all spaces removed.
C8_LongLosesOneParen ==
  \A r \in Runs : \A i \in 1..Completed(r) :
    /\ i <= Len(OutLines(r))
    /\ StartsWith(OutLines(r)[i],
                  <<"\"">>
                    \o NoSpaces(WithoutOneParen(TrimmedRight(SecondPart(InLines(r)[i]), {" "})))
                    \o ArrowText)

\* C8 as amended: the long identifier between the quotes is the second part
\* of field 0 with every leading and trailing space and ")" removed, however
\* many, and then every space removed.
C8_LongIsCleanedSecondPart ==
  \A r \in Runs : \A i \in 1..Completed(r) :
    /\ i <= Len(OutLines(r))
    /\ StartsWith(OutLines(r)[i],
                  <<"\"">> \o Cleaned(SecondPart(InLines(r)[i])) \o ArrowText)

C8_Witness ==
  \E r \in Runs : \E i \in 1..Completed(r) :
    /\ Cleaned(SecondPart(InLines(r)[i]))
         # NoSpaces(WithoutOneParen(TrimmedRight(SecondPart(InLines(r)[i]), {" "})))
    /\ Cleaned(SecondPart(InLines(r)[i])) # <<>>
    /\ i <= Len(OutLines(r))

\* C9: a line whose field 0 has two or more "(" does not fail; it gives
\* exactly one output line, whose long identifier comes from the text
\* between the first and the second "(" and in which nothing from the
\* second "(" on appears.
C9_TextAfterSecondParenDropped ==
  \A r \in Runs : \A i \in 1..idx[r] :
    Cardinality(Positions(BeforePipe(InLines(r)[i]), "(")) >= 2
      => /\ ~FailedAt(r, i)
         /\ Len(OutLines(r)) = Completed(r)
         /\ OutLines(r)[i] =
              <<"\"">> \o Cleaned(SecondPart(InLines(r)[i])) \o ArrowText
                \o Cleaned(FirstPart(InLines(r)[i])) \o <<",", "\n">>

C9_Witness ==
  \E r \in Runs : \E i \in 1..idx[r] :
    LET f == BeforePipe(InLines(r)[i])
    IN /\ Cardinality(Positions(f, "(")) >= 2
       /\ f[Len(f)] = "A"
       /\ f[Len(f) - 1] = "("
       /\ Len(OutLines(r)) = Completed(r)
       /\ i <= Completed(r)

\* both runs have ended
BothEnded == \A r \in Runs : status[r] # "running"

\* the two runs end alike: same output, same outcome, at the same line
SameResult ==
  \A r, q \in Runs :
    stdout[r] = stdout[q] /\ status[r] = status[q] /\ idx[r] = idx[q]

====
